---- MODULE Spec2Model ----
(***************************************************************************)
(* Model of the FOI search engine of src/main.py: search_whatdotheyknow    *)
(* (retry loop, result locating), find_pdf_links_on_page (attachment       *)
(* locating) and the part of search_command that consumes the result.      *)
(*                                                                         *)
(* Python strings are TLA+ strings; TLC evaluates Len, \o and SubSeq on    *)
(* them, and every str method used by the source is built from those.      *)
(* Emoji prefixes of user-facing messages are left out of the literals.    *)
(***************************************************************************)
EXTENDS Integers, Sequences, FiniteSets, TLC

VARIABLES
    pc,         \* position of the flow being modelled
    query,      \* argument of search_command / search_whatdotheyknow
    attempt,    \* loop variable of the retry loop (line 77)
    requests,   \* history: every HTTP request issued, with its outcome
    sleeps,     \* history: every time.sleep of the retry loop, in tenths of a second
    page,       \* soup of the search page (line 106)
    located,    \* outcome of the result-locating strategies (lines 108-160)
    result,     \* what search_whatdotheyknow returned (or raised)
    shown,      \* content of the Discord message after search_command
    scenario,   \* which pool of anchors the result page is drawn from
    link,       \* loop variable of the anchor loop (line 206)
    nscanned,   \* number of anchors of the result page processed so far
    pdf_links,  \* accumulator of find_pdf_links_on_page (line 192)
    capped,     \* history: list kept by a procedure that stops accepting at the cap
    returned,   \* value returned by find_pdf_links_on_page
    handled,    \* number of other commands and events the bot's event loop has run
    served      \* number of health requests the Flask thread has answered

vars == <<pc, query, attempt, requests, sleeps, page, located, result, shown,
          scenario, link, nscanned, pdf_links, capped, returned, handled, served>>

flowVars == <<query, attempt, requests, sleeps, result, shown>>
linkVars == <<scenario, link, nscanned, pdf_links, capped, returned>>
loopVars == <<handled, served>>

(***************************************************************************)
(* Bounds and program constants                                            *)
(***************************************************************************)
MaxLinks == 8
MaxShapeLinks == 3
MaxElems == 3

max_retries == 3
SnippetCap == 300
NameCap == 100
PdfCap == 5

Origin == "https://www.whatdotheyknow.com"

(***************************************************************************)
(* Python str operations                                                   *)
(***************************************************************************)
Min(a, b) == IF a < b THEN a ELSE b

\* s[:n]
Take(s, n) == SubSeq(s, 1, Min(n, Len(s)))

\* s[n:]
Drop(s, n) == SubSeq(s, n + 1, Len(s))

\* s.startswith(p)
StartsWith(s, p) == Len(p) <= Len(s) /\ SubSeq(s, 1, Len(p)) = p

\* s.endswith(p)
EndsWith(s, p) == Len(p) <= Len(s) /\ SubSeq(s, Len(s) - Len(p) + 1, Len(s)) = p

\* sub in s
Contains(s, sub) ==
    \E i \in 1..(Len(s) - Len(sub) + 1) : SubSeq(s, i, i + Len(sub) - 1) = sub

\* s.find(sub) + 1 (0 when absent)
Find(s, sub) ==
    IF Contains(s, sub)
    THEN CHOOSE i \in 1..(Len(s) - Len(sub) + 1) :
            /\ SubSeq(s, i, i + Len(sub) - 1) = sub
            /\ \A k \in 1..(i - 1) : SubSeq(s, k, k + Len(sub) - 1) # sub
    ELSE 0

\* the upper-case letters and their lower-case forms
LowerOf ==
    ("A" :> "a") @@ ("B" :> "b") @@ ("C" :> "c") @@ ("D" :> "d") @@ ("E" :> "e") @@
    ("F" :> "f") @@ ("G" :> "g") @@ ("H" :> "h") @@ ("I" :> "i") @@ ("J" :> "j") @@
    ("K" :> "k") @@ ("L" :> "l") @@ ("M" :> "m") @@ ("N" :> "n") @@ ("O" :> "o") @@
    ("P" :> "p") @@ ("Q" :> "q") @@ ("R" :> "r") @@ ("S" :> "s") @@ ("T" :> "t") @@
    ("U" :> "u") @@ ("V" :> "v") @@ ("W" :> "w") @@ ("X" :> "x") @@ ("Y" :> "y") @@
    ("Z" :> "z")

LowerChar(c) == IF c \in DOMAIN LowerOf THEN LowerOf[c] ELSE c

\* s.lower(), character by character (the string is halved to keep the
\* evaluation shallow)
RECURSIVE Lower(_)
Lower(s) ==
    IF Len(s) = 0 THEN ""
    ELSE IF Len(s) = 1 THEN LowerChar(s)
    ELSE Lower(Take(s, Len(s) \div 2)) \o Lower(Drop(s, Len(s) \div 2))

\* s.split(sep), sep a single character
RECURSIVE Split(_, _)
Split(s, sep) ==
    LET i == Find(s, sep)
    IN IF i = 0 THEN <<s>>
       ELSE <<SubSeq(s, 1, i - 1)>> \o Split(Drop(s, i), sep)

Last(seq) == seq[Len(seq)]

\* urllib.parse.quote(s): unreserved characters and "/" are kept, the rest
\* is percent-encoded (the table covers the characters the queries use).
Unreserved == "ABCDEFGHIJKLMNOPQRSTUVWXYZabcdefghijklmnopqrstuvwxyz0123456789_.-~/"

QuoteChar(c) ==
    IF Contains(Unreserved, c) THEN c
    ELSE IF c = " " THEN "%20"
    ELSE IF c = "?" THEN "%3F"
    ELSE IF c = "&" THEN "%26"
    ELSE "%25"

RECURSIVE quote(_)
quote(s) ==
    IF Len(s) = 0 THEN ""
    ELSE IF Len(s) = 1 THEN QuoteChar(s)
    ELSE quote(Take(s, Len(s) \div 2)) \o quote(Drop(s, Len(s) \div 2))

UnquoteEscape(e) ==
    IF e = "%20" THEN " "
    ELSE IF e = "%3F" THEN "?"
    ELSE IF e = "%26" THEN "&"
    ELSE IF e = "%25" THEN "%"
    ELSE e

\* urllib.parse.unquote(s), for the escapes of the table above: the text
\* before the first "%", the decoded escape, and the rest decoded
RECURSIVE unquote(_)
unquote(s) ==
    LET i == Find(s, "%")
    IN IF i = 0 THEN s
       ELSE IF i + 2 > Len(s) THEN s
       ELSE SubSeq(s, 1, i - 1) \o UnquoteEscape(SubSeq(s, i, i + 2))
                \o unquote(Drop(s, i + 2))

\* c * n
RECURSIVE Rep(_, _)
Rep(c, n) ==
    IF n = 0 THEN ""
    ELSE IF n = 1 THEN c
    ELSE Rep(c, n \div 2) \o Rep(c, n - n \div 2)

(***************************************************************************)
(* Exceptions: the classes the flow can meet and their base classes        *)
(***************************************************************************)
Bases(cls) ==
    CASE cls = "ConnectionError"  -> {"ConnectionError", "RequestException", "Exception"}
      [] cls = "ReadTimeout"      -> {"ReadTimeout", "Timeout", "RequestException", "Exception"}
      [] cls = "ConnectTimeout"   -> {"ConnectTimeout", "ConnectionError", "Timeout",
                                      "RequestException", "Exception"}
      [] cls = "HTTPError"        -> {"HTTPError", "RequestException", "Exception"}
      [] cls = "TooManyRedirects" -> {"TooManyRedirects", "RequestException", "Exception"}
      [] OTHER                    -> {cls, "Exception"}

IsA(cls, base) == base \in Bases(cls)

\* str(e) of the exceptions the network layer and the parser raise
ExcMsg(cls) ==
    CASE cls = "ConnectionError"  -> "Connection refused"
      [] cls = "ReadTimeout"      -> "Read timed out."
      [] cls = "ConnectTimeout"   -> "Connect timed out."
      [] cls = "TooManyRedirects" -> "Exceeded 30 redirects."
      [] OTHER                    -> ""

Exc(cls, msg) == [cls |-> cls, msg |-> msg]

(***************************************************************************)
(* Outcomes of one HTTP request                                            *)
(***************************************************************************)
StatusPool == {100, 200, 304, 404, 429, 500, 503}
FetchErrors == {"ConnectionError", "ReadTimeout", "TooManyRedirects"}

Status(n) == [kind |-> "status", status |-> n, cls |-> ""]
Raised(cls) == [kind |-> "raise", status |-> 0, cls |-> cls]

Outcomes == {Status(n) : n \in StatusPool} \cup {Raised(c) : c \in FetchErrors}

\* variant: only server errors raise
RaisesForStatusServerOnly(status) == 500 <= status /\ status < 600

\* Response.raise_for_status(): raises HTTPError for 4xx and 5xx only
RaisesForStatus(status) == 400 <= status /\ status < 600

HTTPErrorMsg(status, url) ==
    ToString(status)
        \o (IF status < 500 THEN " Client Error" ELSE " Server Error")
        \o " for url: " \o url

(***************************************************************************)
(* Values search_whatdotheyknow hands to its caller                        *)
(***************************************************************************)
NoPdfs == <<>>
Pending == [kind |-> "none", value |-> <<>>, cls |-> "", msg |-> ""]
Return(tuple) == [kind |-> "return", value |-> tuple, cls |-> "", msg |-> ""]
Propagate(e) == [kind |-> "raise", value |-> <<>>, cls |-> e.cls, msg |-> e.msg]

HeavyLoadMsg ==
    "WhatDoTheyKnow.com is currently under heavy load or maintenance. Please try again in a few minutes."
RateLimitMsg ==
    "Rate limited by WhatDoTheyKnow.com. Please wait a moment and try again."

\* variant: the handlers of lines 162-165 without the catch-all of line 166
OuterHandlerNoCatchAll(e) ==
    IF IsA(e.cls, "Timeout")
    THEN Return(<<FALSE, "", "", "Search request timed out", NoPdfs>>)
    ELSE IF IsA(e.cls, "RequestException")
    THEN Return(<<FALSE, "", "", "Search request failed: " \o e.msg, NoPdfs>>)
    ELSE Propagate(e)

\* except clauses of lines 162-167, in order
OuterHandler(e) ==
    IF IsA(e.cls, "Timeout")
    THEN Return(<<FALSE, "", "", "Search request timed out", NoPdfs>>)
    ELSE IF IsA(e.cls, "RequestException")
    THEN Return(<<FALSE, "", "", "Search request failed: " \o e.msg, NoPdfs>>)
    ELSE IF IsA(e.cls, "Exception")
    THEN Return(<<FALSE, "", "", "Search error: " \o e.msg, NoPdfs>>)
    ELSE Propagate(e)

\* variant: the inner clause without Timeout
InnerCatchesConnectionOnly(cls) == IsA(cls, "ConnectionError")

\* except clause of line 100
InnerCatches(cls) == IsA(cls, "ConnectionError") \/ IsA(cls, "Timeout")

SearchUrl(q) == Origin \o "/search/" \o quote(q)

\* delay of line 81, in tenths of a second; jitter is random.uniform(0.5, 1.5)
RECURSIVE Pow2(_)
Pow2(n) == IF n = 0 THEN 1 ELSE 2 * Pow2(n - 1)

JitterPool == {5, 10, 15}

\* variant: the exponent one too high
BackoffDoubled(n, jitter) == 10 * Pow2(n + 1) + jitter

Backoff(n, jitter) == 10 * Pow2(n) + jitter

Continue == [next |-> "continue", res |-> Pending]
Break == [next |-> "break", res |-> Pending]
Leave(r) == [next |-> "leave", res |-> r]

\* variant: the final attempt taken one attempt early
IsFinalAttemptEarly(n) == n = max_retries - 2

\* attempt == max_retries - 1 (lines 88, 93, 101)
IsFinalAttempt(n) == n = max_retries - 1

\* An exception raised inside the loop body: the inner except clause
\* (lines 100-103) or, when it does not match, the outer ones
RaiseInLoop(n, e) ==
    IF InnerCatches(e.cls)
    THEN IF IsFinalAttempt(n)
         THEN Leave(Return(<<FALSE, "", "", "Connection failed: " \o e.msg>>))
         ELSE Continue
    ELSE Leave(OuterHandler(e))

\* One iteration of the retry loop after the request came back (lines 84-103)
AttemptStep(n, o, url) ==
    IF o.kind = "status"
    THEN IF o.status = 503
         THEN IF IsFinalAttempt(n)
              THEN Leave(Return(<<FALSE, "", "", HeavyLoadMsg>>))
              ELSE Continue
         ELSE IF o.status = 429
         THEN IF IsFinalAttempt(n)
              THEN Leave(Return(<<FALSE, "", "", RateLimitMsg>>))
              ELSE Continue
         ELSE IF RaisesForStatus(o.status)
         THEN RaiseInLoop(n, Exc("HTTPError", HTTPErrorMsg(o.status, url)))
         ELSE Break
    ELSE RaiseInLoop(n, Exc(o.cls, ExcMsg(o.cls)))

(***************************************************************************)
(* The search page: its elements in document order.  An anchor carries its *)
(* href ("" when the attribute is missing or empty), its stripped text,    *)
(* the tag of its parent with the parent's other text before and after the *)
(* anchor, and optionally an enclosing block element further out.          *)
(***************************************************************************)
Elem(tag, str, href, text, ptag, pre, post, outer, opre, opost) ==
    [tag |-> tag, string |-> str, href |-> href, text |-> text, ptag |-> ptag,
     pre |-> pre, post |-> post, outer |-> outer, opre |-> opre, opost |-> opost]

H2(str) == Elem("h2", str, "", str, "", "", "", "", "", "")
Title(text) == Elem("title", text, "", text, "", "", "", "", "", "")
Anchor(href, text, ptag, pre, post) ==
    Elem("a", text, href, text, ptag, pre, post, "", "", "")
AnchorIn(href, text, ptag, pre, post, outer, opre, opost) ==
    Elem("a", text, href, text, ptag, pre, post, outer, opre, opost)

\* parent.get_text(strip=True) of the anchor's parent element
ParentText(a) == a.pre \o a.text \o a.post

\* find_parent(tags): the nearest ancestor whose tag is one of tags
HasAncestor(a, tags) == a.ptag \in tags \/ a.outer \in tags
AncestorText(a, tags) ==
    IF a.ptag \in tags THEN ParentText(a)
    ELSE a.opre \o ParentText(a) \o a.opost

\* the predicate of soup.find('h2', string=...) (line 109)
HeadingMatches(e) ==
    /\ e.tag = "h2"
    /\ e.string # ""
    /\ Contains(e.string, "FOI requests")
    /\ Contains(e.string, "of")

\* the loop condition of lines 114-115
Strategy1Anchor(e) == e.tag = "a" /\ StartsWith(e.href, "/request/")

\* variant: only hrefs that begin with /request/
Strategy2AnchorPrefixOnly(e) ==
    /\ e.tag = "a"
    /\ e.href # ""
    /\ StartsWith(e.href, "/request/")

\* the predicate of soup.find_all('a', href=...) (line 136)
Strategy2Anchor(e) ==
    /\ e.tag = "a"
    /\ e.href # ""
    /\ Contains(e.href, "/request/")
    /\ ~StartsWith(e.href, "javascript")

\* the first of a set of positions in document order, or 0 when there is none
First(positions) ==
    IF positions = {} THEN 0
    ELSE CHOOSE i \in positions : \A k \in positions : i <= k

Or(s, default) == IF s = "" THEN default ELSE s

\* variant: the parent's text without the cut
Snippet1NoCap(a) == ParentText(a)

\* lines 123-129
Snippet1(a) ==
    LET snippet_text == ParentText(a)
    IN IF Len(snippet_text) > SnippetCap
       THEN Take(snippet_text, SnippetCap) \o "..."
       ELSE snippet_text

\* lines 145-148
Snippet2(a) ==
    IF HasAncestor(a, {"div", "article", "section", "p"})
    THEN Take(AncestorText(a, {"div", "article", "section", "p"}), SnippetCap) \o "..."
    ELSE ""

Found(strategy, title, url, snippet) ==
    [found |-> TRUE, strategy |-> strategy, title |-> title, url |-> url,
     snippet |-> snippet]
NotFound(strategy, reason) ==
    [found |-> FALSE, strategy |-> strategy, title |-> "", url |-> "",
     snippet |-> reason]
NotLocated == [found |-> FALSE, strategy |-> 0, title |-> "", url |-> "", snippet |-> ""]

\* lines 155-160
NoResults(doc, q) ==
    LET t == First({i \in 1..Len(doc) : doc[i].tag = "title"})
    IN IF t # 0 /\ Contains(Lower(doc[t].text), "search")
       THEN NotFound(3, "Search completed but no results found for '" \o q
                        \o "'. Try different keywords.")
       ELSE NotFound(3, "No search results found or page could not be parsed")

\* lines 136-152
Fallback(doc, q) ==
    LET j == First({i \in 1..Len(doc) : Strategy2Anchor(doc[i])})
    IN IF j # 0
       THEN Found(2, doc[j].text, Origin \o doc[j].href,
                  Or(Snippet2(doc[j]), "FOI request found"))
       ELSE NoResults(doc, q)

\* variant: the attachments are looked for whether or not a result was located
CallsFindPdfsAlways(loc) == TRUE

\* find_pdf_links_on_page is called only in the branches that located an
\* anchor (lines 117-131 and 138-150)
CallsFindPdfs(loc) == loc.found

\* variant: strategy 1 takes the first /request/ anchor of the document
LocateResultFromTop(doc, q) ==
    LET h == First({i \in 1..Len(doc) : HeadingMatches(doc[i])})
        j == IF h = 0 THEN 0
             ELSE First({i \in 1..Len(doc) : Strategy1Anchor(doc[i])})
    IN IF j # 0
       THEN Found(1, doc[j].text, Origin \o doc[j].href,
                  Or(Snippet1(doc[j]), "No description available"))
       ELSE Fallback(doc, q)

\* lines 109-160: the three strategies in order
LocateResult(doc, q) ==
    LET h == First({i \in 1..Len(doc) : HeadingMatches(doc[i])})
        j == IF h = 0 THEN 0
             ELSE First({i \in (h + 1)..Len(doc) : Strategy1Anchor(doc[i])})
    IN IF j # 0
       THEN Found(1, doc[j].text, Origin \o doc[j].href,
                  Or(Snippet1(doc[j]), "No description available"))
       ELSE Fallback(doc, q)

hMatch == H2("14 FOI requests of Cambridge found")
hOther == H2("Related FOI requests")
tSearch == Title("Search results - WhatDoTheyKnow")
tOther == Title("Service unavailable")
aFoo == AnchorIn("/request/foo", "My FOI Request", "span", "", "",
                 "div", "", "Cambridge, 3 May")
aLong == Anchor("/request/long", "Long", "div", Rep("x", 150), Rep("y", 156))
aExact == Anchor("/request/exact", "Exact", "p", Rep("x", 295), "")
aEmpty == Anchor("/request/image", "", "div", "", "")
aBare == Anchor("/request/bare", "Bare", "span", "", "")
aAbs == Anchor("https://www.whatdotheyknow.com/request/bar", "Absolute", "li", "", "more")
aScript == Anchor("javascript:open('/request/x')", "Script", "div", "", "")
aBody == Anchor("/body/cambridge", "Cambridge", "div", "", "")

ElemPool == {hMatch, hOther, tSearch, tOther, aFoo, aLong, aExact, aEmpty, aBare,
             aAbs, aScript, aBody}

RECURSIVE SeqsUpTo(_, _)
SeqsUpTo(S, n) ==
    IF n = 0 THEN {<<>>}
    ELSE LET shorter == SeqsUpTo(S, n - 1)
         IN shorter \cup {Append(s, x) : s \in shorter, x \in S}

Pages == SeqsUpTo(ElemPool, MaxElems)

(***************************************************************************)
(* The result page: attachment locating (lines 204-307).  Only name and    *)
(* url of a pdf_info record are modelled; its size string takes no part in *)
(* classification, deduplication or the cap.                               *)
(***************************************************************************)
IsSpace(c) == c = " "

\* end of the run of non-space characters that starts at position i
RunEnd(s, i) ==
    CHOOSE e \in i..Len(s) :
        /\ \A k \in i..e : ~IsSpace(SubSeq(s, k, k))
        /\ (e = Len(s) \/ IsSpace(SubSeq(s, e + 1, e + 1)))

PdfAt(s, p) == p + 3 <= Len(s) /\ Lower(SubSeq(s, p, p + 3)) = ".pdf"

\* re.search(r'([^\s]+\.pdf)', s, re.IGNORECASE): group 1, or "" without a match.
\* The leftmost start wins; the greedy run then ends at the last ".pdf" of
\* the run of non-space characters it starts in.
PdfToken(s) ==
    LET Starts == {i \in 1..Len(s) :
                     /\ ~IsSpace(SubSeq(s, i, i))
                     /\ \E q \in (i + 1)..(RunEnd(s, i) - 3) : PdfAt(s, q)}
    IN IF Starts = {} THEN ""
       ELSE LET i == CHOOSE a \in Starts : \A b \in Starts : a <= b
                q == CHOOSE a \in (i + 1)..(RunEnd(s, i) - 3) :
                        /\ PdfAt(s, a)
                        /\ \A b \in (a + 1)..(RunEnd(s, i) - 3) : ~PdfAt(s, b)
            IN SubSeq(s, i, q + 3)

\* lines 229-236: the segment two places after the first "attach" segment
AttachName(href) ==
    LET url_parts == Split(href, "/")
        i == First({k \in 1..Len(url_parts) :
                      url_parts[k] = "attach" /\ k + 2 <= Len(url_parts)})
    IN IF i = 0 THEN ""
       ELSE unquote(Split(url_parts[i + 2], "?")[1])

NameTags == {"li", "div", "p", "td"}

Unclassified == [is_pdf |-> FALSE, pdf_name |-> ""]
Classified(name) == [is_pdf |-> TRUE, pdf_name |-> name]

\* Pattern 1 (line 220)
IsDirectPdf(href) == EndsWith(Lower(href), ".pdf")

\* Pattern 2 (lines 225-226)
IsAttachPdf(href) ==
    /\ Contains(href, "/response/")
    /\ Contains(href, "/attach/")
    /\ Contains(href, ".pdf")
    /\ ~Contains(href, "/attach/html/")

\* Pattern 3 (lines 239-240)
IsDownloadPdf(href, link_text) ==
    /\ Contains(Lower(link_text), "download")
    /\ Contains(href, ".pdf")
    /\ ~Contains(href, ".html")

\* lines 214-250
ClassifyLink(a) ==
    IF IsDirectPdf(a.href)
    THEN Classified(Split(Last(Split(a.href, "/")), "?")[1])
    ELSE IF IsAttachPdf(a.href)
    THEN Classified(AttachName(a.href))
    ELSE IF IsDownloadPdf(a.href, a.text)
    THEN IF HasAncestor(a, NameTags)
         THEN Classified(PdfToken(AncestorText(a, NameTags)))
         ELSE Classified("")
    ELSE Unclassified

\* lines 254-259
FullPdfUrl(href) ==
    IF StartsWith(href, "/") THEN Origin \o href
    ELSE IF ~StartsWith(href, "http") THEN Origin \o "/" \o href
    ELSE href

\* lines 262-263
FallbackName(pdf_name, link_text) ==
    IF pdf_name # "" THEN pdf_name
    ELSE IF link_text # "" /\ Contains(Lower(link_text), ".pdf") THEN link_text
    ELSE "document.pdf"

\* lines 290-294
PdfInfo(a, pdf_name) ==
    [name |-> Take(FallbackName(pdf_name, a.text), NameCap), url |-> FullPdfUrl(a.href)]

\* variant: only names are compared
IsDuplicateNameOnly(list, info) ==
    \E i \in 1..Len(list) : list[i].name = info.name

\* lines 297-302
IsDuplicate(list, info) ==
    \E i \in 1..Len(list) : list[i].name = info.name \/ list[i].url = info.url

\* lines 304-305
AppendIfNew(list, info) ==
    IF IsDuplicate(list, info) THEN list ELSE Append(list, info)

\* one iteration of the anchor loop (lines 206-305)
ScanStep(list, a) ==
    IF a.href = "" THEN list
    ELSE LET c == ClassifyLink(a)
         IN IF c.is_pdf THEN AppendIfNew(list, PdfInfo(a, c.pdf_name)) ELSE list

\* variant: the whole list
LimitPdfsNone(list) == list

\* pdf_links[:5] (line 307)
LimitPdfs(list) == Take(list, PdfCap)

RECURSIVE ScanAll(_, _)
ScanAll(list, anchors) ==
    IF anchors = <<>> THEN list
    ELSE ScanAll(ScanStep(list, Head(anchors)), Tail(anchors))

\* variant: no except clause
PdfHandlerMissing(e) == Propagate(e)

\* except clause of lines 309-311
PdfHandler(e) == IF IsA(e.cls, "Exception") THEN Return(<<>>) ELSE Propagate(e)

\* find_pdf_links_on_page(url), given what the request and the parser do
FindPdfLinksOnPage(o, parses, anchors) ==
    IF o.kind = "raise" THEN PdfHandler(Exc(o.cls, ExcMsg(o.cls)))
    ELSE IF o.status # 200 THEN Return(<<>>)
    ELSE IF ~parses THEN PdfHandler(Exc("ParserError", ""))
    ELSE Return(LimitPdfs(ScanAll(<<>>, anchors)))

\* The procedure the accumulated list is compared with: it stops accepting
\* once the cap is reached.
CapStep(list, a) ==
    IF a.href = "" \/ Len(list) >= PdfCap THEN list
    ELSE LET c == ClassifyLink(a)
         IN IF c.is_pdf /\ ~IsDuplicate(list, PdfInfo(a, c.pdf_name))
            THEN Append(list, PdfInfo(a, c.pdf_name))
            ELSE list

Link(href, text) == Anchor(href, text, "li", "", "")
NoLink == Anchor("", "", "", "", "")

lDoc1 == Link("/files/doc1.pdf", "doc1")
lDoc2 == Link("/files/doc2.pdf", "doc2")
lDoc3 == Link("/files/doc3.PDF", "doc3")
lDoc4 == Link("files/doc4.pdf?download=1.pdf", "doc4")
lAtt5 == Link("/request/9/response/1/attach/5/doc5.pdf?cookie_passthrough=1", "doc5")
lDown6 == Anchor("/get/6.pdf?inline=1", "Download", "td", "doc6.pdf", "175K")
lAbs7 == Link("https://files.example.org/a/doc7.pdf", "doc7")
lDupName == Link("/mirror/doc1.pdf", "mirror of doc1")
lPlain == Link("/request/foo", "Back to the request")

\* a long result page: seven attachments, a second link to the first one's
\* file name and a link that is no attachment
ManyPage == <<lDoc1, lDupName, lDoc2, lDoc3, lPlain, lDoc4, lAtt5, lDown6, lAbs7>>

sAttach == Link("/response/1/attach/2/report.pdf", "report.pdf")
sHtml == Link("/response/1/attach/html/2/report.pdf", "View as HTML")
sHtmlPage == Link("/response/1/attach/html/3/notes.pdf.html", "Download as HTML")
sBare == Link("attach/2/x.pdf", "x")
sHttpName == Link("http-guide.pdf", "guide")
sEncoded == Link("/response/9/attach/3/final%20report.pdf?cookie_passthrough=1", "final")
sSameUrlA == Link("/get/77.pdf?inline=1", "Download letter.pdf")
sSameUrlB == Link("/get/77.pdf?inline=1", "Download annex.pdf")
sNoNameA == Anchor("/get/1.pdf?inline=1", "Download", "span", "", "")
sNoNameB == Anchor("/get/2.pdf?inline=1", "Download", "span", "", "")
sLongA == Link("/files/" \o Rep("n", NameCap) \o "a.pdf", "a")
sLongB == Link("/files/" \o Rep("n", NameCap) \o "b.pdf", "b")
sEmpty == Link("", "empty")

ShapePool == {sAttach, sHtml, sHtmlPage, sBare, sHttpName, sEncoded, sSameUrlA,
              sSameUrlB, sNoNameA, sNoNameB, sLongA, sLongB, sEmpty}

Position(a) ==
    IF \E i \in 1..Len(ManyPage) : ManyPage[i] = a
    THEN CHOOSE i \in 1..Len(ManyPage) : ManyPage[i] = a
    ELSE 0

\* The anchors that may follow anchor a on a page of the scenario: "many"
\* pages repeat and skip anchors of ManyPage but keep its order, "shapes"
\* pages are all sequences over ShapePool.
NextAnchors(sc, a) ==
    IF sc = "many"
    THEN {ManyPage[i] : i \in {k \in 1..Len(ManyPage) : k >= Position(a)}}
    ELSE ShapePool
LinkBound(sc) == IF sc = "many" THEN MaxLinks ELSE MaxShapeLinks

(***************************************************************************)
(* search_command and search_whatdotheyknow as one flow                    *)
(***************************************************************************)
Queries == {"", "a b"}

FlowPages == {<<>>, <<tSearch>>, <<hMatch, aFoo>>, <<aLong>>, <<tSearch, aBare>>}
ResultPages == {<<>>, <<sAttach, sHtml>>,
                <<lDoc1, lDoc2, lDoc3, lDoc4, lAtt5, lDown6, lAbs7>>}

NoMessage == [content |-> "", embed |-> <<>>]

Init ==
    /\ pc = "idle"
    /\ query = ""
    /\ attempt = 0
    /\ requests = <<>>
    /\ sleeps = <<>>
    /\ page = <<>>
    /\ located = NotLocated
    /\ result = Pending
    /\ shown = NoMessage
    /\ scenario = "none"
    /\ link = NoLink
    /\ nscanned = 0
    /\ pdf_links = <<>>
    /\ capped = <<>>
    /\ returned = <<>>
    /\ handled = 0
    /\ served = 0

\* body: what became of the response body ("unread" until it is parsed)
Request(kind, url, o, body) == [kind |-> kind, url |-> url, outcome |-> o, body |-> body]

\* search_command up to the call of the engine (lines 336-345)
Invoke ==
    /\ pc = "idle"
    /\ \E q \in Queries :
        /\ query' = q
        /\ IF q = ""
           THEN /\ pc' = "done"
                /\ shown' = [content |-> "Please provide search keywords. Usage: !search <keywords>",
                             embed |-> <<>>]
           ELSE /\ pc' = "attempt"
                /\ shown' = [content |-> "Searching whatdotheyknow.com for: **" \o q \o "**",
                             embed |-> <<>>]
    /\ attempt' = 0
    /\ UNCHANGED <<requests, sleeps, page, located, result>>
    /\ UNCHANGED linkVars
    /\ UNCHANGED loopVars

\* one iteration of the retry loop (lines 77-103)
SearchAttempt ==
    /\ pc = "attempt"
    /\ attempt < max_retries
    /\ \E o \in Outcomes, jitter \in JitterPool :
        LET step == AttemptStep(attempt, o, SearchUrl(query))
        IN /\ sleeps' = IF attempt > 0
                        THEN Append(sleeps, Backoff(attempt, jitter))
                        ELSE sleeps
           /\ requests' = Append(requests, Request("search", SearchUrl(query), o, "unread"))
           /\ result' = step.res
           /\ IF step.next = "leave"
              THEN pc' = "returned" /\ attempt' = attempt
              ELSE IF step.next = "break"
              THEN pc' = "parse" /\ attempt' = attempt
              ELSE /\ attempt' = attempt + 1
                   /\ pc' = IF attempt + 1 < max_retries THEN "attempt" ELSE "parse"
    /\ UNCHANGED <<query, page, located, shown>>
    /\ UNCHANGED linkVars
    /\ UNCHANGED loopVars

\* the history with the body of the last response marked as read
BodyRead(reqs, how) == [reqs EXCEPT ![Len(reqs)].body = how]

\* BeautifulSoup(response.content) and the three strategies (lines 106-160)
ParseSearchPage ==
    /\ pc = "parse"
    /\ \E parses \in BOOLEAN, doc \in FlowPages :
        IF ~parses
        THEN /\ result' = OuterHandler(Exc("ParserError", ""))
             /\ pc' = "returned"
             /\ requests' = BodyRead(requests, "unparsable")
             /\ UNCHANGED <<page, located>>
        ELSE /\ page' = doc
             /\ requests' = BodyRead(requests, "html")
             /\ located' = LocateResult(doc, query)
             /\ IF CallsFindPdfs(located')
                THEN pc' = "find_pdfs" /\ result' = result
                ELSE /\ pc' = "returned"
                     /\ result' = Return(<<FALSE, "", "", located'.snippet, NoPdfs>>)
    /\ UNCHANGED <<query, attempt, sleeps, shown>>
    /\ UNCHANGED linkVars
    /\ UNCHANGED loopVars

\* the call of find_pdf_links_on_page and the return (lines 131-133, 150-152)
FindPdfs ==
    /\ pc = "find_pdfs"
    /\ \E o \in Outcomes, parses \in BOOLEAN, anchors \in ResultPages :
        LET got == FindPdfLinksOnPage(o, parses, anchors)
        IN /\ requests' = Append(requests,
                   Request("result", located.url, o,
                           IF o.kind = "raise" \/ o.status # 200 THEN "unread"
                           ELSE IF parses THEN "html" ELSE "unparsable"))
           /\ result' = IF got.kind = "return"
                        THEN Return(<<TRUE, located.title, located.url, located.snippet,
                                      got.value>>)
                        ELSE OuterHandler(Exc(got.cls, got.msg))
    /\ pc' = "returned"
    /\ UNCHANGED <<query, attempt, sleeps, page, located, shown>>
    /\ UNCHANGED linkVars
    /\ UNCHANGED loopVars

UnpackError(n) ==
    "not enough values to unpack (expected 5, got " \o ToString(n) \o ")"

Names(list) == [i \in 1..Len(list) |-> list[i].name]

\* what search_command makes of the engine's answer (lines 343-383)
RenderMessage(q, r) ==
    IF r.kind = "raise"
    THEN [content |-> "Unexpected error during search: " \o r.msg, embed |-> <<>>]
    ELSE IF Len(r.value) # 5
    THEN [content |-> "Unexpected error during search: " \o UnpackError(Len(r.value)),
          embed |-> <<>>]
    ELSE IF r.value[1]
    THEN [content |-> "**Search Results for:** " \o q,
          embed |-> <<[title |-> Take(r.value[2], 256), url |-> r.value[3],
                       description |-> Take(r.value[4], 4096),
                       pdfs |-> Names(Take(r.value[5], 3))]>>]
    ELSE [content |-> "Search failed: " \o r.value[4], embed |-> <<>>]

Render ==
    /\ pc = "returned"
    /\ shown' = RenderMessage(query, result)
    /\ pc' = "done"
    /\ UNCHANGED <<query, attempt, requests, sleeps, page, located, result>>
    /\ UNCHANGED linkVars
    /\ UNCHANGED loopVars

Next == Invoke \/ SearchAttempt \/ ParseSearchPage \/ FindPdfs \/ Render

Spec == Init /\ [][Next]_vars

\* every step of the flow is a step of straight-line code: it is taken
FairSpec == Spec /\ WF_vars(Next)

(***************************************************************************)
(* The result-locating strategies on every small document                  *)
(***************************************************************************)
InitLocate ==
    /\ pc = "parse"
    /\ query = "a b"
    /\ attempt = 0
    /\ requests = <<Request("search", SearchUrl("a b"), Status(200), "unread")>>
    /\ sleeps = <<>>
    /\ page \in Pages
    /\ located = NotLocated
    /\ result = Pending
    /\ shown = NoMessage
    /\ scenario = "none"
    /\ link = NoLink
    /\ nscanned = 0
    /\ pdf_links = <<>>
    /\ capped = <<>>
    /\ returned = <<>>
    /\ handled = 0
    /\ served = 0

Locate ==
    /\ pc = "parse"
    /\ located' = LocateResult(page, query)
    /\ pc' = IF CallsFindPdfs(located') THEN "find_pdfs" ELSE "returned"
    /\ result' = IF CallsFindPdfs(located') THEN result
                 ELSE Return(<<FALSE, "", "", located'.snippet, NoPdfs>>)
    /\ requests' = BodyRead(requests, "html")
    /\ UNCHANGED <<query, attempt, sleeps, page, shown>>
    /\ UNCHANGED linkVars
    /\ UNCHANGED loopVars

(***************************************************************************)
(* The process: asyncio.run(main()) runs the bot on one event loop thread  *)
(* (line 432); search_command is a coroutine of that loop and calls        *)
(* search_whatdotheyknow as a plain function (line 345), so from the call  *)
(* to the next await (lines 373, 378) the loop thread runs nothing else.   *)
(* Flask runs in a daemon thread of its own (lines 426-427).               *)
(***************************************************************************)
MaxEvents == 1

\* the loop thread is between coroutines, or search_command has finished
LoopIdle == pc \in {"idle", "done"}

\* the event loop runs another handler (on_ready, on_command_error,
\* help_command or the start of another command)
OtherEvent ==
    /\ LoopIdle
    /\ handled < MaxEvents
    /\ handled' = handled + 1
    /\ UNCHANGED <<pc, page, located, served>>
    /\ UNCHANGED flowVars
    /\ UNCHANGED linkVars

\* the Flask thread answers / or /status (lines 27-42)
HealthCheck ==
    /\ served < MaxEvents
    /\ served' = served + 1
    /\ UNCHANGED <<pc, page, located, handled>>
    /\ UNCHANGED flowVars
    /\ UNCHANGED linkVars

NextLoop == Next \/ OtherEvent \/ HealthCheck

SpecLoop == Init /\ [][NextLoop]_vars

NextLocate == Locate

SpecLocate == InitLocate /\ [][NextLocate]_vars

(***************************************************************************)
(* The anchor loop of find_pdf_links_on_page on every short result page    *)
(***************************************************************************)
InitLinks ==
    /\ pc = "scan"
    /\ query = "a b"
    /\ attempt = 0
    /\ requests = <<>>
    /\ sleeps = <<>>
    /\ page = <<>>
    /\ located = NotLocated
    /\ result = Pending
    /\ shown = NoMessage
    /\ scenario \in {"many", "shapes"}
    /\ link = NoLink
    /\ nscanned = 0
    /\ pdf_links = <<>>
    /\ capped = <<>>
    /\ returned = <<>>
    /\ handled = 0
    /\ served = 0

\* the loop body for the next anchor of the page (lines 206-305)
ScanLink ==
    /\ pc = "scan"
    /\ nscanned < LinkBound(scenario)
    /\ \E a \in NextAnchors(scenario, link) :
        /\ link' = a
        /\ pdf_links' = ScanStep(pdf_links, a)
        /\ capped' = CapStep(capped, a)
    /\ nscanned' = nscanned + 1
    /\ UNCHANGED <<pc, scenario, returned, page, located>>
    /\ UNCHANGED flowVars
    /\ UNCHANGED loopVars

\* line 307
ReturnLinks ==
    /\ pc = "scan"
    /\ returned' = LimitPdfs(pdf_links)
    /\ pc' = "scanned"
    /\ UNCHANGED <<scenario, link, nscanned, pdf_links, capped, page, located>>
    /\ UNCHANGED flowVars
    /\ UNCHANGED loopVars

NextLinks == ScanLink \/ ReturnLinks

SpecLinks == InitLinks /\ [][NextLinks]_vars

(***************************************************************************)
(* Properties                                                              *)
(***************************************************************************)
Returned == pc \in {"returned", "done"} /\ query # ""
LastRequest == requests[Len(requests)]

\* every request so far was a search-page attempt answered with status s
EveryAttemptGot(s) ==
    /\ requests # <<>>
    /\ \A i \in 1..Len(requests) :
          requests[i].kind = "search" /\ requests[i].outcome = Status(s)

\* C1: when every search-page attempt is answered 503 (or every one 429), the
\* engine issues exactly max_retries requests and then returns found=false
\* with the reason mentioning "heavy load or maintenance" (for 429: "rate
\* limited", letter case ignored); before that it is still retrying.
C1_RetriesExhausted ==
    \A s \in {503, 429} :
        EveryAttemptGot(s) =>
            /\ pc \in {"attempt", "returned", "done"}
            /\ pc = "attempt" => Len(requests) = attempt /\ attempt < max_retries
            /\ pc # "attempt" =>
                /\ Len(requests) = max_retries
                /\ result.kind = "return"
                /\ result.value[1] = FALSE
                /\ IF s = 503
                   THEN Contains(result.value[4], "heavy load or maintenance")
                   ELSE Contains(Lower(result.value[4]), "rate limited")

C1_Witness ==
    pc = "returned" /\ EveryAttemptGot(429) /\ Len(requests) = max_retries

\* C2 (safety part): no exception leaves search_whatdotheyknow, and a
\* found=false answer has a non-empty reason and empty title and url.
C2_NothingEscapes ==
    /\ result.kind # "raise"
    /\ Returned =>
        /\ result.kind = "return"
        /\ result.value[1] = FALSE =>
              result.value[4] # "" /\ result.value[2] = "" /\ result.value[3] = ""

\* C2: for every query and every sequence of server responses the engine
\* terminates with a returned value: nothing escapes it, a found=false answer
\* carries a non-empty reason with empty title and url, and the command
\* always reaches its end.
C2_AlwaysAnswers == []C2_NothingEscapes /\ <>(pc = "done")

C2_Witness ==
    /\ pc = "done"
    /\ Len(requests) = max_retries
    /\ LastRequest.outcome = Status(200)
    /\ LastRequest.body = "unparsable"
    /\ result.kind = "return"
    /\ result.value[1] = FALSE
    /\ result.value[4] = "Search error: "

\* C3: every value search_whatdotheyknow returns has the five components
\* (success, title, url, snippet, pdf_links), and after a failed search the
\* command shows the engine's reason after "Search failed: ".
C3_FiveComponents ==
    Returned /\ result.kind = "return" =>
        /\ Len(result.value) = 5
        /\ pc = "done" /\ result.value[1] = FALSE =>
              shown.content = "Search failed: " \o result.value[4]

HttpErrors == (400..599) \ {503, 429}
NonSuccess == (100..599) \ ((200..299) \cup {503, 429})

\* the search-page attempt that got a status satisfying Fatal was the last
\* request of the query, its body was never parsed and the answer is the
\* generic request failure
FatalEndsQuery(Fatal) ==
    \A i \in 1..Len(requests) :
        (/\ requests[i].kind = "search"
         /\ requests[i].outcome.kind = "status"
         /\ requests[i].outcome.status \in Fatal) =>
            /\ i = Len(requests)
            /\ requests[i].body = "unread"
            /\ pc \in {"returned", "done"}
            /\ result.kind = "return"
            /\ Len(result.value) = 5
            /\ result.value[1] = FALSE
            /\ StartsWith(result.value[4], "Search request failed: ")

ResultFetchFailed ==
    /\ LastRequest.kind = "result"
    /\ \/ LastRequest.outcome.kind = "raise"
       \/ LastRequest.outcome.status # 200
       \/ LastRequest.body = "unparsable"

\* C5: once a result was located, every outcome of the result-page fetch
\* leaves the answer found=true with the located title, url and snippet, and
\* the attachment list is empty when the fetch or the parse failed.
C5_AttachmentFailureNotFatal ==
    Returned /\ located.found =>
        /\ result.kind = "return"
        /\ Len(result.value) = 5
        /\ result.value[1] = TRUE
        /\ result.value[2] = located.title
        /\ result.value[3] = located.url
        /\ result.value[4] = located.snippet
        /\ ResultFetchFailed => result.value[5] = <<>>

C5_Witness ==
    /\ pc = "returned"
    /\ located.found
    /\ LastRequest.kind = "result"
    /\ LastRequest.outcome = Raised("ReadTimeout")
    /\ result.value[1] = TRUE

\* C6: the returned list has at most 5 entries and is the list kept by the
\* procedure that stops accepting at 5; with 7 accepted (pairwise distinct)
\* attachments it has exactly 5 entries, the first five in document order.
C6_FirstFiveInOrder ==
    /\ capped = Take(pdf_links, PdfCap)
    /\ pc = "scanned" =>
        /\ Len(returned) <= PdfCap
        /\ returned = capped
        /\ Len(pdf_links) = 7 =>
              /\ Len(returned) = 5
              /\ \A i \in 1..5 : returned[i] = pdf_links[i]

C6_Witness ==
    pc = "scanned" /\ scenario = "many" /\ Len(pdf_links) = 7 /\ Len(returned) = 5

NoTwoAlike(list) ==
    \A i, j \in 1..Len(list) :
        i < j => list[i].name # list[j].name /\ list[i].url # list[j].url

\* the attachment the anchor a stands for
InfoOf(a) == PdfInfo(a, ClassifyLink(a).pdf_name)
Qualifies(a) == a.href # "" /\ ClassifyLink(a).is_pdf

\* C7: no two accumulated (or returned) attachments have equal name or equal
\* url, names have at most 100 characters, and a classified anchor that was
\* not appended has the name or the url of an attachment accepted before it.
C7_NoDuplicates ==
    /\ NoTwoAlike(pdf_links)
    /\ NoTwoAlike(returned)
    /\ \A i \in 1..Len(pdf_links) : Len(pdf_links[i].name) <= NameCap
    /\ (nscanned > 0 /\ Qualifies(link)) =>
          \/ pdf_links # <<>> /\ Last(pdf_links) = InfoOf(link)
          \/ \E i \in 1..Len(pdf_links) :
                \/ pdf_links[i].name = InfoOf(link).name
                \/ pdf_links[i].url = InfoOf(link).url

C7_Witness ==
    /\ pc = "scan"
    /\ nscanned = 2
    /\ link = sSameUrlB
    /\ pdf_links = <<InfoOf(sSameUrlA)>>
    /\ InfoOf(sSameUrlA).url = InfoOf(sSameUrlB).url
    /\ InfoOf(sSameUrlA).name # InfoOf(sSameUrlB).name

\* C8: no returned attachment comes from a link whose href contains
\* "/attach/html/".
C8_HtmlVariantExcluded ==
    pc = "scanned" =>
        \A i \in 1..Len(returned) : ~Contains(returned[i].url, "/attach/html/")

\* a scheme followed by a host
IsAbsolute(url) ==
    \E scheme \in {"http://", "https://"} :
        /\ StartsWith(url, scheme)
        /\ Len(url) > Len(scheme)
        /\ SubSeq(url, Len(scheme) + 1, Len(scheme) + 1) # "/"

\* C9: the url of a found SearchResult and of every attachment is absolute.
C9_UrlsAbsolute ==
    /\ located.found => IsAbsolute(located.url)
    /\ \A i \in 1..Len(pdf_links) : IsAbsolute(pdf_links[i].url)

\* C10 as stated: the snippet of a found SearchResult has at most 300
\* characters.
C10_SnippetWithinCap == located.found => Len(located.snippet) <= SnippetCap

\* C10: the snippet of a found SearchResult has at most 300 characters plus
\* the three of the ellipsis, whichever strategy produced it.
C10_SnippetWithinCapAndEllipsis ==
    located.found => Len(located.snippet) <= SnippetCap + Len("...")

C10_Witness ==
    /\ located.found
    /\ located.strategy = 1
    /\ Len(located.snippet) = SnippetCap + 3
    /\ Len(page) = 2
    /\ Len(ParentText(page[2])) > SnippetCap + 3

\* the search page has been searched for a result
Searched == pc \in {"find_pdfs", "returned", "done"} /\ located # NotLocated

\* positions of the summary headings, and of the anchors after position h
\* whose href begins with /request/
SummaryHeadings == {h \in 1..Len(page) : HeadingMatches(page[h])}
RequestAnchorsAfter(h) ==
    {j \in (h + 1)..Len(page) :
        page[j].tag = "a" /\ StartsWith(page[j].href, "/request/")}

Strategy1HasCandidate ==
    \E h \in SummaryHeadings :
        /\ \A g \in SummaryHeadings : h <= g
        /\ RequestAnchorsAfter(h) # {}

\* C11: when the page has a summary heading and an anchor after it whose
\* href begins with /request/, the result is found with the title and the
\* href of the first such anchor after the heading, whatever anchors stand
\* before the heading.
C11_Strategy1Wins ==
    Searched =>
        \A h \in SummaryHeadings, j \in 1..Len(page) :
            ( /\ \A g \in SummaryHeadings : h <= g
              /\ j \in RequestAnchorsAfter(h)
              /\ \A k \in RequestAnchorsAfter(h) : j <= k )
            => /\ located.found
               /\ located.strategy = 1
               /\ located.title = page[j].text
               /\ located.url = Origin \o page[j].href

C11_Witness ==
    /\ Searched
    /\ page = <<aBare, hMatch, aFoo>>
    /\ located.found
    /\ located.title = aFoo.text
    /\ located.url = Origin \o aFoo.href

\* positions of the anchors whose href contains /request/ and does not begin
\* with the script pseudo-protocol
Strategy2Candidates ==
    {j \in 1..Len(page) :
        /\ page[j].tag = "a"
        /\ Contains(page[j].href, "/request/")
        /\ ~StartsWith(page[j].href, "javascript")}

\* C12: strategy 2 decides exactly when strategy 1 has no candidate; it then
\* finds the first anchor in document order whose href contains /request/
\* and is not a script href, and the result is not found only when neither
\* strategy has a candidate.
C12_Strategy2WhenStrategy1Fails ==
    Searched =>
        /\ located.found /\ located.strategy = 2 => ~Strategy1HasCandidate
        /\ (~Strategy1HasCandidate /\ Strategy2Candidates # {}) =>
              \E j \in Strategy2Candidates :
                  /\ \A k \in Strategy2Candidates : j <= k
                  /\ located.found
                  /\ located.strategy = 2
                  /\ located.title = page[j].text
                  /\ located.url = Origin \o page[j].href
        /\ ~located.found <=> (~Strategy1HasCandidate /\ Strategy2Candidates = {})

C12_Witness ==
    /\ Searched
    /\ page = <<aScript, hMatch, aAbs>>
    /\ located.found
    /\ located.strategy = 2
    /\ located.title = aAbs.text

ResultRequests == {i \in 1..Len(requests) : requests[i].kind = "result"}

\* C13: a result-page request is made exactly when the search page was
\* fetched and read and strategy 1 or 2 located a result; it is the last
\* request of the query, comes after every search-page request, goes to the
\* located url and is made once, so a query makes at most max_retries + 1
\* requests; when nothing is located no such request is made and the
\* attachment list is empty.
C13_OneResultRequest ==
    /\ Len(requests) <= max_retries + 1
    /\ \A i \in ResultRequests :
          /\ i = Len(requests)
          /\ i > 1
          /\ \A k \in 1..(i - 1) : requests[k].kind = "search"
          /\ requests[i - 1].outcome.kind = "status"
          /\ requests[i - 1].body = "html"
          /\ located.found
          /\ located.strategy \in {1, 2}
          /\ requests[i].url = located.url
          /\ Returned
    /\ (Returned /\ located.found) => ResultRequests # {}
    /\ (Returned /\ ~located.found) =>
          /\ ResultRequests = {}
          /\ located.strategy = 3 =>
                /\ result.kind = "return"
                /\ Len(result.value) = 5
                /\ result.value[5] = <<>>

C13_Witness ==
    /\ Returned
    /\ Len(requests) = max_retries + 1
    /\ ResultRequests = {max_retries + 1}
    /\ LastRequest.url = located.url
    /\ LastRequest.outcome = Raised("ReadTimeout")

\* the failures the retry loop retries
IsTransient(o) ==
    o \in {Status(503), Status(429), Raised("ConnectionError"), Raised("ReadTimeout")}

\* the answer is found=false with the reason that belongs to the failure o
Surfaces(o) ==
    /\ result.kind = "return"
    /\ result.value[1] = FALSE
    /\ IF o = Status(503) THEN Contains(Lower(result.value[4]), "heavy load")
       ELSE IF o = Status(429) THEN Contains(Lower(result.value[4]), "rate limited")
       ELSE /\ StartsWith(result.value[4], "Connection failed")
            /\ EndsWith(result.value[4], ExcMsg(o.cls))

SurfacesTransient == \E o \in Outcomes : IsTransient(o) /\ Surfaces(o)

\* C14: whatever the mix of outcomes, a transient failure is surfaced only
\* after exactly max_retries search-page requests and with the reason of the
\* final attempt's failure; a 2xx answer on any attempt ends the retrying,
\* its body is the one parsed and the earlier failures are not surfaced.
C14_FinalAttemptDecides ==
    /\ \A i \in 1..Len(requests) :
          (requests[i].kind = "search" /\ IsTransient(requests[i].outcome)) =>
              IF i < max_retries
              THEN \/ pc = "attempt" /\ attempt = i /\ Len(requests) = i
                   \/ Len(requests) > i /\ requests[i + 1].kind = "search"
              ELSE /\ Returned
                   /\ Len(requests) = max_retries
                   /\ Surfaces(requests[i].outcome)
    /\ (Returned /\ SurfacesTransient) =>
          /\ Len(requests) = max_retries
          /\ \A i \in 1..max_retries :
                requests[i].kind = "search" /\ IsTransient(requests[i].outcome)
          /\ Surfaces(requests[max_retries].outcome)
    /\ \A i \in 1..Len(requests) :
          (requests[i].kind = "search" /\ requests[i].outcome = Status(200)) =>
              /\ pc # "attempt"
              /\ \A k \in (i + 1)..Len(requests) : requests[k].kind = "result"
              /\ pc # "parse" => requests[i].body \in {"html", "unparsable"}
              /\ ~SurfacesTransient

C14_Witness ==
    /\ Returned
    /\ Len(requests) = max_retries
    /\ requests[1].outcome = Status(503)
    /\ requests[2].outcome = Raised("ReadTimeout")
    /\ requests[3].outcome = Status(429)
    /\ result.value[4] = RateLimitMsg

SearchRequests == {i \in 1..Len(requests) : requests[i].kind = "search"}

RECURSIVE Sum(_)
Sum(s) == IF s = <<>> THEN 0 ELSE s[1] + Sum(Tail(s))

\* C15: there is no sleep before attempt 0 and exactly one before each later
\* attempt n, of 2^n + 0.5 to 2^n + 1.5 seconds whatever failure led to the
\* retry, so the backoff of one query sums to at most 9 seconds (durations
\* in tenths of a second).
C15_BackoffSchedule ==
    /\ SearchRequests = {} => sleeps = <<>>
    /\ SearchRequests # {} => Len(sleeps) = Cardinality(SearchRequests) - 1
    /\ \A n \in 1..Len(sleeps) :
          /\ 10 * (2 ^ n) + 5 <= sleeps[n]
          /\ sleeps[n] <= 10 * (2 ^ n) + 15
    /\ Sum(sleeps) <= 90

C15_Witness ==
    /\ Len(requests) = max_retries
    /\ requests[1].outcome = Raised("ConnectionError")
    /\ requests[2].outcome = Status(429)
    /\ sleeps = <<35, 55>>
    /\ Sum(sleeps) = 90

Blocks == {"div", "article", "section", "p"}

\* C16: the snippet of strategy 2 follows the rule of strategy 1: the
\* container's text as it is up to 300 characters, its first 300 characters
\* and an ellipsis when longer, and "FOI request found" when there is no
\* container or its text is empty.
C16_Snippet2SameRule ==
    (Searched /\ located.found /\ located.strategy = 2) =>
        \E j \in Strategy2Candidates :
            /\ \A k \in Strategy2Candidates : j <= k
            /\ LET text == IF HasAncestor(page[j], Blocks)
                           THEN AncestorText(page[j], Blocks)
                           ELSE ""
               IN located.snippet =
                      IF text = "" THEN "FOI request found"
                      ELSE IF Len(text) <= SnippetCap THEN text
                      ELSE Take(text, SnippetCap) \o "..."

\* an href resolved against the site origin
Resolved(href) ==
    IF StartsWith(href, "http://") \/ StartsWith(href, "https://") THEN href
    ELSE IF StartsWith(href, "/") THEN Origin \o href
    ELSE Origin \o "/" \o href

\* C17: the url of a located result is the anchor's href resolved against
\* the site origin: origin + href for a root-relative href, the href itself
\* when it is already absolute.
C17_UrlResolved ==
    (Searched /\ located.found) =>
        \E j \in 1..Len(page) :
            /\ page[j].tag = "a"
            /\ located.title = page[j].text
            /\ located.url = Resolved(page[j].href)

\* a download-labeled link whose file name is found neither in its container
\* nor in its own text
UnnamedDownload(a) ==
    /\ a.href # ""
    /\ Contains(Lower(a.text), "download")
    /\ Contains(a.href, ".pdf")
    /\ ~Contains(a.href, ".html")
    /\ ~IsDirectPdf(a.href)
    /\ ~IsAttachPdf(a.href)
    /\ ~Contains(Lower(a.text), ".pdf")
    /\ HasAncestor(a, NameTags) => PdfToken(AncestorText(a, NameTags)) = ""

\* C18: once the loop has passed a download-labeled link without a
\* recoverable file name, the link is recorded under the placeholder name,
\* unless its url had been accepted before or five attachments preceded it;
\* an earlier attachment with the placeholder name does not prevent it.
C18_PlaceholderRecorded ==
    (pc = "scan" /\ nscanned > 0 /\ UnnamedDownload(link)) =>
        \/ /\ pdf_links # <<>>
           /\ Last(pdf_links) = [name |-> "document.pdf", url |-> FullPdfUrl(link.href)]
        \/ \E i \in 1..Len(pdf_links) : pdf_links[i].url = FullPdfUrl(link.href)
        \/ Len(pdf_links) >= PdfCap

\* the command is inside search_whatdotheyknow
InEngine == pc \in {"attempt", "parse", "find_pdfs"}

\* C19: while a search command is inside search_whatdotheyknow the event
\* loop can start handling another command or event, and the Flask thread
\* can answer a health request.
C19_WaitsBlockNothing ==
    InEngine =>
        /\ handled < MaxEvents => ENABLED OtherEvent
        /\ served < MaxEvents => ENABLED HealthCheck

TimedOut == Raised("ReadTimeout")

\* C20: a timeout of a search-page request is retried on a non-final attempt
\* and gives the "Connection failed: ..." reason on the final one; a timeout
\* of the result-page request costs only the attachments; the engine never
\* answers "Search request timed out".
C20_OuterTimeoutUnreachable ==
    /\ result.kind = "return" => result.value[4] # "Search request timed out"
    /\ \A i \in 1..Len(requests) :
          requests[i].outcome = TimedOut =>
              IF requests[i].kind = "result"
              THEN /\ Returned
                   /\ result.kind = "return"
                   /\ result.value[1] = TRUE
                   /\ result.value[5] = <<>>
              ELSE IF i < max_retries
              THEN \/ pc = "attempt" /\ attempt = i /\ Len(requests) = i
                   \/ Len(requests) > i /\ requests[i + 1].kind = "search"
              ELSE /\ Returned
                   /\ result.kind = "return"
                   /\ result.value[1] = FALSE
                   /\ result.value[4] = "Connection failed: " \o ExcMsg("ReadTimeout")

C20_Witness ==
    /\ Returned
    /\ Len(requests) = max_retries
    /\ \A i \in 1..max_retries : requests[i].outcome = TimedOut
    /\ StartsWith(result.value[4], "Connection failed: ")

====
